---- MODULE Spec2Model ----
(***************************************************************************)
(* A model of the American Eagle product scraper (src/scraper.py):         *)
(*   - AmericanEagleScraper.scroll_and_load_products (the listing walk),   *)
(*   - AmericanEagleScraper.extract_product_data, the price parse and      *)
(*     ImageEmbedder.generate_embedding,                                   *)
(*   - SupabaseClient.upsert_product (the sink),                           *)
(*   - AmericanEagleScraper.scrape_category and AmericanEagleScraper.run.  *)
(* Python's None is the empty tuple <<>> and a present value x is <<x>>.   *)
(* Text is a sequence of one-character strings.                            *)
(***************************************************************************)
EXTENDS Integers, Sequences, FiniteSets, TLC

VARIABLES
    \* ---- scroll_and_load_products (one call) ----
    max_scrolls,        \* parameter max_scrolls
    max_products,       \* parameter max_products (None or <<n>>)
    walk,               \* the locals of the while loop, and whether it still runs
    iterations,         \* history: number of executions of the loop body
    grew,               \* history: the height rose at every iteration so far
    trend,              \* history: the height read last, and for how many iterations
                        \* in a row it was unchanged (flat) and not greater (nongrow)
    walk_result,        \* the returned list, as a set (None until the call returns)
    \* ---- the price parse of extract_product_data (one call) ----
    price_input,        \* priceEl.textContent (None: no price element)
    price_pc,           \* "idle", "start" or "done"
    price_out,          \* [price, raised] once parsed
    \* ---- run / scrape_category ----
    category_urls,      \* parameter category_urls of run
    site,               \* which behaviours of the outside world the run meets
    run_pc,             \* position of run()
    cat_idx,            \* number of categories scrape_category was called for
    cat_pc,             \* position of scrape_category
    open_pages,         \* renderer pages opened and not yet closed
    listing,            \* product_urls of scrape_category, as a set
    processed,          \* URLs of listing the for loop has been through
    extracted_ok,       \* history: URLs whose extraction gave a record with a title
    sink_always_ok,     \* history: no call of the sink has failed so far
    scraped_urls,       \* self.scraped_urls
    failed_urls,        \* self.failed_urls
    upserts,            \* history: URLs the sink has stored once, and again
    last,               \* history: the latest pass through the for loop body
    summary             \* the counts logged by the run summary (None before)

walkVars == <<max_scrolls, walk, iterations, grew, trend, walk_result>>
priceVars == <<price_input, price_pc, price_out>>
runVars == <<category_urls, site, run_pc, cat_idx, cat_pc, open_pages, listing,
             processed, extracted_ok, sink_always_ok, scraped_urls, failed_urls, upserts,
             last, summary>>
vars == <<walkVars, max_products, priceVars, runVars>>

None == <<>>
Some(x) == <<x>>

\* Python truthiness of an Optional[int]: None and 0 are both falsy.
Truthy(opt) == opt /= None /\ opt[1] /= 0

Range(s) == {s[i] : i \in 1..Len(s)}

Min(a, b) == IF a < b THEN a ELSE b

\* What the variables of the other parts hold while one part runs alone.
PriceIdle ==
    /\ price_input = None
    /\ price_pc = "idle"
    /\ price_out = None

RunIdle ==
    /\ category_urls = <<>>
    /\ site = "none"
    /\ run_pc = "idle"
    /\ cat_idx = 0
    /\ cat_pc = "idle"
    /\ open_pages = 0
    /\ listing = {}
    /\ processed = {}
    /\ extracted_ok = {}
    /\ sink_always_ok = TRUE
    /\ scraped_urls = {}
    /\ failed_urls = {}
    /\ upserts = [once |-> {}, again |-> {}]
    /\ last = None
    /\ summary = None

WalkIdle ==
    /\ max_scrolls = 0
    /\ walk = [product_urls |-> <<>>, last_height |-> 0, scroll_attempts |-> 0,
              no_change_count |-> 0, running |-> FALSE, stop |-> "attempts"]
    /\ iterations = 0
    /\ grew = TRUE
    /\ trend = [prev |-> 0, flat |-> 0, nongrow |-> 0]
    /\ walk_result = None

-----------------------------------------------------------------------------
(* Bounds of the model. *)

MaxScrolls == 5      \* largest max_scrolls tried in a lone listing walk
MaxCap == 2          \* largest max_products cap tried
MaxHeight == 5       \* document heights are 0..MaxHeight
MaxHarvest == 2      \* most links one harvest (current_urls) holds

URLS == {"u1", "u2", "u3"}

RECURSIVE SeqsUpTo(_, _)
SeqsUpTo(S, n) ==
    IF n = 0 THEN {<<>>}
    ELSE LET shorter == SeqsUpTo(S, n - 1)
         IN shorter \cup {Append(s, x) : s \in {t \in shorter : Len(t) = n - 1}, x \in S}

Heights == 0..MaxHeight
Harvests == SeqsUpTo(URLS, MaxHarvest)
Caps == {None} \cup {Some(n) : n \in 0..MaxCap}

-----------------------------------------------------------------------------
(* scroll_and_load_products, src/scraper.py:158-221 *)

\* The cap test of lines 197 and 202: "max_products and len(product_urls) >= max_products".
CapReached(mp, urls) == Truthy(mp) /\ Len(urls) >= mp[1]

\* Lines 193-199: append the unseen URLs of current_urls in order, stopping at the cap.
RECURSIVE AddUnique(_, _, _)
AddUnique(urls, current_urls, mp) ==
    IF current_urls = <<>> THEN urls
    ELSE LET url == Head(current_urls)
         IN IF url \in Range(urls)
            THEN AddUnique(urls, Tail(current_urls), mp)
            ELSE LET grown == Append(urls, url)
                 IN IF CapReached(mp, grown)
                    THEN grown
                    ELSE AddUnique(grown, Tail(current_urls), mp)

\* A while test that lets one more iteration through.
WhileTestOffByOne(scroll_attempts, ms) == scroll_attempts <= ms

\* The while condition of line 176.
WhileTest(scroll_attempts, ms) == scroll_attempts < ms

\* Lines 169-172 and the first test of the while condition (line 176).
WalkStart(ms) ==
    [product_urls |-> <<>>, last_height |-> 0, scroll_attempts |-> 0,
     no_change_count |-> 0, running |-> WhileTest(0, ms), stop |-> "attempts"]

\* An end-of-content test that also counts a height that fell.
HeightNotGreater(current_height, last_height) == current_height <= last_height

\* The end-of-content test of line 206.
HeightUnchanged(current_height, last_height) == current_height = last_height

\* One execution of the loop body (lines 177-215) followed by the while test
\* (line 176): current_height and current_urls are what the page shows.
ScrollIteration(w, current_height, current_urls, ms, mp) ==
    LET urls == AddUnique(w.product_urls, current_urls, mp)
        same == HeightUnchanged(current_height, w.last_height)
        ncc == IF same THEN w.no_change_count + 1 ELSE 0
    IN IF CapReached(mp, urls)
       THEN [w EXCEPT !.product_urls = urls, !.running = FALSE, !.stop = "cap"]
       ELSE IF same /\ ncc >= 3
       THEN [w EXCEPT !.product_urls = urls, !.no_change_count = ncc,
                      !.running = FALSE, !.stop = "bottom"]
       ELSE [product_urls |-> urls, last_height |-> current_height,
             scroll_attempts |-> w.scroll_attempts + 1, no_change_count |-> ncc,
             running |-> WhileTest(w.scroll_attempts + 1, ms), stop |-> "attempts"]

\* Line 221: list(set(product_urls)).
WalkReturnValue(w) == Range(w.product_urls)

-----------------------------------------------------------------------------
(* The price: the script of src/scraper.py:261-267 run in the page, then the *)
(* parse of src/scraper.py:340-350.                                          *)

MaxPriceLen == 4     \* longest price text tried exhaustively

Digits == {"0", "1", "2", "3", "4", "5", "6", "7", "8", "9"}

DigitVal(c) ==
    CASE c = "0" -> 0 [] c = "1" -> 1 [] c = "2" -> 2 [] c = "3" -> 3 [] c = "4" -> 4
      [] c = "5" -> 5 [] c = "6" -> 6 [] c = "7" -> 7 [] c = "8" -> 8 [] c = "9" -> 9

SetMin(S) == CHOOSE x \in S : \A y \in S : x <= y

\* The last index of the run of characters of S that starts at index i of s
\* (i - 1 when s[i] is not in S or i is past the end).
RunEnd(s, i, S) ==
    LET stops == {k \in i..Len(s) : s[k] \notin S}
    IN IF stops = {} THEN Len(s) ELSE SetMin(stops) - 1

\* The value of a string of digits ("" is 0).
RECURSIVE ToNat(_)
ToNat(ds) ==
    IF ds = <<>> THEN 0 ELSE 10 * ToNat(SubSeq(ds, 1, Len(ds) - 1)) + DigitVal(ds[Len(ds)])

RECURSIVE StripTrailingZeros(_)
StripTrailingZeros(ds) ==
    IF ds /= <<>> /\ ds[Len(ds)] = "0"
    THEN StripTrailingZeros(SubSeq(ds, 1, Len(ds) - 1))
    ELSE ds

\* A decimal number: its integer part and its fraction digits without trailing zeros.
Decimal(int_digits, frac_digits) ==
    [ip |-> ToNat(int_digits), fp |-> StripTrailingZeros(frac_digits)]

\* String.prototype.trim, for the one white-space character of the alphabet.
RECURSIVE JsTrim(_)
JsTrim(s) ==
    IF s /= <<>> /\ Head(s) = " " THEN JsTrim(Tail(s))
    ELSE IF s /= <<>> /\ s[Len(s)] = " " THEN JsTrim(SubSeq(s, 1, Len(s) - 1))
    ELSE s

\* priceText.match(/[0-9,]+\.?[0-9]*/): the leftmost match, each part greedy
\* (line 265). None when nothing matches.
JsPriceMatch(text) ==
    LET cls == Digits \cup {","}
        starts == {i \in 1..Len(text) : text[i] \in cls}
    IN IF starts = {} THEN None
       ELSE LET i == SetMin(starts)
                j == RunEnd(text, i, cls)
                k == IF j + 1 <= Len(text) /\ text[j + 1] = "." THEN j + 1 ELSE j
                e == RunEnd(text, k + 1, Digits)
            IN Some(SubSeq(text, i, e))

\* Removing every comma.
RECURSIVE RemoveAll(_, _)
RemoveAll(s, c) ==
    IF s = <<>> THEN <<>>
    ELSE IF Head(s) = c THEN RemoveAll(Tail(s), c)
    ELSE <<Head(s)>> \o RemoveAll(Tail(s), c)

\* String.prototype.replace with a string pattern: the first occurrence only.
RemoveFirst(s, c) ==
    LET at == {i \in 1..Len(s) : s[i] = c}
    IN IF at = {} THEN s
       ELSE SubSeq(s, 1, SetMin(at) - 1) \o SubSeq(s, SetMin(at) + 1, Len(s))

\* priceMatch[0].replace(',', '') of line 266.
JsStripSeparators(token) == RemoveFirst(token, ",")

\* data.price_text as the script leaves it (lines 262-267): None when the page has
\* no price element.
PriceText(price_el) ==
    IF price_el = None THEN None
    ELSE LET m == JsPriceMatch(JsTrim(price_el[1]))
         IN IF m = None THEN Some(<<>>) ELSE Some(JsStripSeparators(m[1]))

\* Python's float() on a string of digits, commas and dots: None for ValueError.
PyFloat(s) ==
    LET dots == {i \in 1..Len(s) : s[i] = "."}
        ipart == IF dots = {} THEN s ELSE SubSeq(s, 1, SetMin(dots) - 1)
        fpart == IF dots = {} THEN <<>> ELSE SubSeq(s, SetMin(dots) + 1, Len(s))
    IN IF /\ Range(ipart) \subseteq Digits
          /\ Range(fpart) \subseteq Digits
          /\ Len(ipart) + Len(fpart) > 0
       THEN Some(Decimal(ipart, fpart))
       ELSE None

\* re.search(r'(\d+\.?\d*)', price_text) of line 348: group 1, or None.
PyFirstNumber(s) ==
    LET starts == {i \in 1..Len(s) : s[i] \in Digits}
    IN IF starts = {} THEN None
       ELSE LET i == SetMin(starts)
                j == RunEnd(s, i, Digits)
                k == IF j + 1 <= Len(s) /\ s[j + 1] = "." THEN j + 1 ELSE j
                e == RunEnd(s, k + 1, Digits)
            IN Some(SubSeq(s, i, e))

\* Lines 340-350: the price of the record, and whether an error left the block.
ParsePrice(price_text) ==
    IF price_text = None \/ price_text = Some(<<>>)
    THEN [price |-> None, raised |-> FALSE]
    ELSE LET first == PyFloat(price_text[1])
             m == PyFirstNumber(price_text[1])
         IN IF first /= None THEN [price |-> first, raised |-> FALSE]
            ELSE IF m = None THEN [price |-> None, raised |-> FALSE]
            ELSE IF PyFloat(m[1]) = None THEN [price |-> None, raised |-> TRUE]
            ELSE [price |-> PyFloat(m[1]), raised |-> FALSE]

PriceAlphabet == {"$", " ", ",", ".", "1", "2"}

PriceExamples ==
    { <<"$", "4", "9", ".", "9", "9">>,
      <<"$", "1", ",", "2", "3", "4", ".", "0", "0">>,
      <<"$", "1", ",", "2", "3", "4", ",", "5", "6", "7", ".", "0", "0">>,
      <<"S", "o", "l", "d", " ", "o", "u", "t">> }

-----------------------------------------------------------------------------
(* extract_product_data, generate_embedding and upsert_product. *)

StartsWith(s, prefix) ==
    Len(s) >= Len(prefix) /\ SubSeq(s, 1, Len(prefix)) = prefix

\* self.base_url, src/scraper.py:148.
BaseUrl ==
    <<"h", "t", "t", "p", "s", ":", "/", "/", "w", "w", "w", ".", "a", "e", ".", "c", "o", "m">>

Http == <<"h", "t", "t", "p">>

Letters == {"a", "c", "d", "e", "f", "h", "i", "m", "o", "p", "s", "t", "w", "x"}
SchemeChars == Letters \cup Digits \cup {"+", "-", "."}

\* The scheme urllib.parse.urlsplit finds in a URL (<<>> when it finds none).
UrlScheme(url) ==
    LET colons == {i \in 1..Len(url) : url[i] = ":"}
    IN IF colons = {} THEN <<>>
       ELSE LET i == SetMin(colons)
            IN IF i > 1 /\ url[1] \in Letters /\ Range(SubSeq(url, 1, i - 1)) \subseteq SchemeChars
               THEN SubSeq(url, 1, i - 1)
               ELSE <<>>

\* urllib.parse.urljoin(base, url) for a base without a path (line 356) and a url
\* that has no scheme or another scheme than the base.
UrlJoin(base, url) ==
    IF url = <<>> THEN base
    ELSE IF UrlScheme(url) /= <<>> THEN url
    ELSE IF StartsWith(url, <<"/", "/">>) THEN UrlScheme(base) \o <<":">> \o url
    ELSE IF StartsWith(url, <<"/">>) THEN base \o url
    ELSE base \o <<"/">> \o url

\* The test of lines 355 and 357: image_url.startswith('http').
LooksLikeHttp(url) == StartsWith(url, Http)

\* Lines 353-359: the image URL of the record, or None when the record is dropped.
ResolveImageUrl(image_url) ==
    IF image_url = <<>> THEN Some(image_url)
    ELSE LET joined == IF ~LooksLikeHttp(image_url) THEN UrlJoin(BaseUrl, image_url)
                       ELSE image_url
         IN IF ~LooksLikeHttp(joined) THEN None ELSE Some(joined)

\* Characters str.strip() removes: the space and U+001F, which the page's trim()
\* keeps.
PyWhitespace == {" ", "US"}

RECURSIVE PyStrip(_)
PyStrip(s) ==
    IF s /= <<>> /\ Head(s) \in PyWhitespace THEN PyStrip(Tail(s))
    ELSE IF s /= <<>> /\ s[Len(s)] \in PyWhitespace THEN PyStrip(SubSeq(s, 1, Len(s) - 1))
    ELSE s

\* data.title of the page script (lines 253-259) for the element a title
\* selector finds: absent when there is no element or its trimmed text is empty.
JsTitle(title_el) ==
    IF title_el = None \/ JsTrim(title_el[1]) = <<>> THEN None
    ELSE Some(JsTrim(title_el[1]))

\* The dimension generate_embedding insists on, src/scraper.py:77.
EmbeddingDim == 768

\* generate_embedding with the try block's handler removed.
GenerateEmbeddingNoCatch(emb) ==
    IF emb.error /= "none" THEN [value |-> None, raised |-> TRUE]
    ELSE IF emb.dim /= EmbeddingDim THEN [value |-> None, raised |-> FALSE]
    ELSE [value |-> Some(emb.dim), raised |-> FALSE]

\* ImageEmbedder.generate_embedding (lines 57-85): emb is what the fetch, the
\* decode and the model do; the vector is kept as its length.
GenerateEmbedding(emb) ==
    IF emb.error /= "none" THEN [value |-> None, raised |-> FALSE]
    ELSE IF emb.dim /= EmbeddingDim THEN [value |-> None, raised |-> FALSE]
    ELSE [value |-> Some(emb.dim), raised |-> FALSE]

\* extract_product_data (lines 234-398): the record, or None. env is what the
\* navigation, the page and the embedder do. The price (above) and the other
\* optional fields do not decide the result and are left out of the record.
ExtractProductData(product_url, env) ==
    LET title == JsTitle(env.title_el)
        image == ResolveImageUrl(env.image_src)
        embedding == GenerateEmbedding(env.emb)
    IN IF env.nav /= "ok" THEN None
       ELSE IF title = None THEN None
       ELSE IF env.image_src = <<>> THEN None
       ELSE IF image = None THEN None
       ELSE IF embedding.raised THEN None
       ELSE Some([product_url |-> product_url,
                  title |-> PyStrip(title[1]),
                  image_url |-> image[1],
                  embedding |-> embedding.value])

\* SupabaseClient.upsert_product (lines 105-141): False when the write raises.
UpsertProduct(record, sink) == sink = "ok"

-----------------------------------------------------------------------------
(* scrape_category and run. *)

\* max_scrolls as scrape_category leaves it (line 417): the default of line 158.
DefaultMaxScrolls == 50

\* The whole while loop over a page that shows script[i] at iteration i and stays
\* as script's last entry shows it afterwards.
RECURSIVE WalkAll(_, _, _, _, _)
WalkAll(w, script, i, ms, mp) ==
    IF ~w.running THEN w
    ELSE LET seen == script[Min(i, Len(script))]
         IN WalkAll(ScrollIteration(w, seen.height, seen.urls, ms, mp), script, i + 1, ms, mp)

\* scroll_and_load_products as scrape_category calls it (line 417).
ScrollAndLoadProducts(script, mp) ==
    WalkReturnValue(WalkAll(WalkStart(DefaultMaxScrolls), script, 1, DefaultMaxScrolls, mp))

\* The body of the for loop with the handler of lines 447-450 removed: a stray
\* error leaves the loop.
ProductStepNoCatch(product_url, env, scraped, failed) ==
    LET result == ExtractProductData(product_url, env)
        usable == result /= None /\ result[1].title /= <<>>
        success == usable /\ UpsertProduct(result[1], env.sink)
    IN IF env.body = "raise"
       THEN [scraped |-> scraped, failed |-> failed,
             result |-> None, sunk |-> FALSE, outcome |-> "error", escaped |-> TRUE]
       ELSE [scraped |-> IF success THEN scraped \cup {product_url} ELSE scraped,
             failed |-> IF success THEN failed ELSE failed \cup {product_url},
             result |-> result, sunk |-> usable,
             outcome |-> IF success THEN "saved"
                         ELSE IF usable THEN "sink_failed" ELSE "extract_failed",
             escaped |-> FALSE]

\* The body of the for loop that forgets the URL of a page it could not extract.
ProductStepDropsFailure(product_url, env, scraped, failed) ==
    LET result == ExtractProductData(product_url, env)
        usable == result /= None /\ result[1].title /= <<>>
        success == usable /\ UpsertProduct(result[1], env.sink)
    IN IF env.body = "raise"
       THEN [scraped |-> scraped, failed |-> failed \cup {product_url},
             result |-> None, sunk |-> FALSE, outcome |-> "error", escaped |-> FALSE]
       ELSE [scraped |-> IF success THEN scraped \cup {product_url} ELSE scraped,
             failed |-> IF success \/ ~usable THEN failed ELSE failed \cup {product_url},
             result |-> result, sunk |-> usable,
             outcome |-> IF success THEN "saved"
                         ELSE IF usable THEN "sink_failed" ELSE "extract_failed",
             escaped |-> FALSE]

\* The body of the for loop (lines 426-450) for a URL that is not skipped: the two
\* sets afterwards, the extraction's result, whether the sink was called, and
\* whether an error left the loop. env.body = "raise" is an error raised in the
\* try block at line 428 that extract_product_data did not catch itself.
ProductStep(product_url, env, scraped, failed) ==
    LET result == ExtractProductData(product_url, env)
        usable == result /= None /\ result[1].title /= <<>>
        success == usable /\ UpsertProduct(result[1], env.sink)
    IN IF env.body = "raise"
       THEN [scraped |-> scraped, failed |-> failed \cup {product_url},
             result |-> None, sunk |-> FALSE, outcome |-> "error", escaped |-> FALSE]
       ELSE [scraped |-> IF success THEN scraped \cup {product_url} ELSE scraped,
             failed |-> IF success THEN failed ELSE failed \cup {product_url},
             result |-> result, sunk |-> usable,
             outcome |-> IF success THEN "saved"
                         ELSE IF usable THEN "sink_failed" ELSE "extract_failed",
             escaped |-> FALSE]

\* The counts of the run summary (lines 478-479).
SummaryCounts(scraped, failed) ==
    [scraped |-> Cardinality(scraped), failed |-> Cardinality(failed)]

(* What the outside world may do during one pass through the for loop. *)

ImgHttps == <<"h", "t", "t", "p", "s", ":", "/", "/", "c", "/", "i">>
ImgRootRelative == <<"/", "i">>
ImgProtocolRelative == <<"/", "/", "c", "/", "i">>
ImgHttpPrefixedPath == <<"h", "t", "t", "p", "x", "/", "i">>
ImgData == <<"d", "a", "t", "a", ":", "i">>

TitleEls == {None, Some(<<>>), Some(<<" ">>), Some(<<"US">>), Some(<<"a">>),
             Some(<<" ", "a", "US">>)}
ImageSrcs == {<<>>, ImgHttps, ImgRootRelative, ImgProtocolRelative,
              ImgHttpPrefixedPath, ImgData}
EmbEnvs == {[error |-> "fetch", dim |-> 0], [error |-> "decode", dim |-> 0],
            [error |-> "none", dim |-> 512], [error |-> "none", dim |-> EmbeddingDim]}

GoodEnv ==
    [body |-> "none", nav |-> "ok", title_el |-> Some(<<"a">>), image_src |-> ImgHttps,
     emb |-> [error |-> "none", dim |-> EmbeddingDim], sink |-> "ok"]

\* Every behaviour of the outside world, with the parts the code never gets to
\* look at left as in GoodEnv.
Untitled == {t \in TitleEls : JsTitle(t) = None}
Unresolved == {i \in ImageSrcs : i = <<>> \/ ResolveImageUrl(i) = None}
SinksFor(t) == IF PyStrip(JsTitle(t)[1]) = <<>> THEN {"ok"} ELSE {"ok", "error"}

RichSite ==
    {[GoodEnv EXCEPT !.body = "raise"], [GoodEnv EXCEPT !.nav = "error"]}
    \cup {[GoodEnv EXCEPT !.title_el = t] : t \in Untitled}
    \cup {[GoodEnv EXCEPT !.title_el = t, !.image_src = i] :
            t \in TitleEls \ Untitled, i \in Unresolved}
    \cup UNION {{[GoodEnv EXCEPT !.title_el = t, !.image_src = i, !.emb = e, !.sink = k] :
                    i \in ImageSrcs \ Unresolved, e \in EmbEnvs, k \in SinksFor(t)} :
                t \in TitleEls \ Untitled}

\* A few behaviours of the outside world.
BasicSite ==
    { GoodEnv,
      [GoodEnv EXCEPT !.emb = [error |-> "none", dim |-> 512]],
      [GoodEnv EXCEPT !.title_el = None],
      [GoodEnv EXCEPT !.sink = "error"],
      [GoodEnv EXCEPT !.body = "raise"] }

SiteEnvs(name) == IF name = "rich" THEN RichSite ELSE BasicSite

\* What the category page shows to the listing walk: two views, the second at
\* the same height or taller; the page stays as the second view shows it.
Scripts ==
    { <<[height |-> 1, urls |-> a], [height |-> h, urls |-> b]>> :
        a \in Harvests, b \in Harvests, h \in 1..2 }

CategoryNames == <<"c1", "c2">>

Init ==
    /\ \/ /\ site = "basic"
          /\ category_urls \in {SubSeq(CategoryNames, 1, n) : n \in 0..Len(CategoryNames)}
          /\ max_products \in Caps
       \/ /\ site = "rich"
          /\ category_urls = SubSeq(CategoryNames, 1, 1)
          /\ max_products = None
    /\ run_pc = "start"
    /\ cat_idx = 0
    /\ cat_pc = "idle"
    /\ open_pages = 0
    /\ listing = {}
    /\ processed = {}
    /\ extracted_ok = {}
    /\ sink_always_ok = TRUE
    /\ scraped_urls = {}
    /\ failed_urls = {}
    /\ upserts = [once |-> {}, again |-> {}]
    /\ last = None
    /\ summary = None
    /\ WalkIdle
    /\ PriceIdle

unchangedByRun == <<walkVars, max_products, priceVars, category_urls, site>>

\* The finally of scrape_category is left without closing the page.
ClosePageSkipped(pages) == pages

\* Line 453: the finally of scrape_category closes its page.
ClosePage(pages) == pages - 1

\* The for loop goes through every URL again, scraped or not.
NeverSkipped(product_url, scraped) == FALSE

\* Line 423: the test that passes over a URL of the success set.
AlreadyScraped(product_url, scraped) == product_url \in scraped

\* Lines 464-465: the browser starts, or run fails before its try block.
Launch ==
    /\ run_pc = "start"
    /\ run_pc' \in {"running", "launch_failed"}
    /\ UNCHANGED <<cat_idx, cat_pc, open_pages, listing, processed, extracted_ok,
                   sink_always_ok, scraped_urls, failed_urls, upserts, last, summary,
                   unchangedByRun>>

\* An error leaves scrape_category: run's finally closes the browser (line 473)
\* and the error leaves run, which has no handler.
RunRaises == run_pc' = "raised"

\* Line 469 calls scrape_category, whose line 410 opens a page; when that fails
\* the error leaves scrape_category before its try block.
OpenPage ==
    /\ run_pc = "running"
    /\ cat_pc \in {"idle", "returned"}
    /\ cat_idx < Len(category_urls)
    /\ cat_idx' = cat_idx + 1
    /\ listing' = {}
    /\ processed' = {}
    /\ last' = None
    /\ \/ /\ open_pages' = open_pages + 1
          /\ cat_pc' = "opened"
          /\ UNCHANGED run_pc
       \/ /\ cat_pc' = "raised_new_page"
          /\ RunRaises
          /\ UNCHANGED open_pages
    /\ UNCHANGED <<extracted_ok, sink_always_ok, scraped_urls, failed_urls, upserts, summary,
                   unchangedByRun>>

\* Line 413: page.goto of the category page; on an error the finally of line 453
\* closes the page and the error goes on to run.
LoadCategory ==
    /\ run_pc = "running"
    /\ cat_pc = "opened"
    /\ \/ /\ cat_pc' = "loaded"
          /\ UNCHANGED <<run_pc, open_pages>>
       \/ /\ cat_pc' = "raised_goto"
          /\ open_pages' = ClosePage(open_pages)
          /\ RunRaises
    /\ UNCHANGED <<cat_idx, listing, processed, extracted_ok, sink_always_ok, scraped_urls,
                   failed_urls, upserts, last, summary, unchangedByRun>>

\* Line 417: the listing walk returns its URLs, or a renderer error leaves it.
WalkListing ==
    /\ run_pc = "running"
    /\ cat_pc = "loaded"
    /\ \/ /\ \E script \in Scripts :
                listing' = ScrollAndLoadProducts(script, max_products)
          /\ cat_pc' = "loop"
          /\ UNCHANGED <<run_pc, open_pages>>
       \/ /\ cat_pc' = "raised_walk"
          /\ open_pages' = ClosePage(open_pages)
          /\ RunRaises
          /\ UNCHANGED listing
    /\ UNCHANGED <<cat_idx, processed, extracted_ok, sink_always_ok, scraped_urls,
                   failed_urls, upserts, last, summary, unchangedByRun>>

\* Lines 423-424: a URL already in scraped_urls is passed over.
SkipScraped ==
    /\ run_pc = "running"
    /\ cat_pc = "loop"
    /\ \E product_url \in listing \ processed :
          /\ AlreadyScraped(product_url, scraped_urls)
          /\ processed' = processed \cup {product_url}
          /\ last' = Some([url |-> product_url, env |-> GoodEnv, result |-> None,
                           sunk |-> FALSE, outcome |-> "skipped",
                           failed_before |-> product_url \in failed_urls,
                           scraped_before |-> product_url \in scraped_urls])
    /\ UNCHANGED <<run_pc, cat_idx, cat_pc, open_pages, listing, extracted_ok,
                   sink_always_ok, scraped_urls, failed_urls, upserts, summary, unchangedByRun>>

\* Lines 426-450: one pass through the for loop for a URL that is not skipped.
ProcessProduct ==
    /\ run_pc = "running"
    /\ cat_pc = "loop"
    /\ \E product_url \in listing \ processed, env \in SiteEnvs(site) :
          \E step \in {ProductStep(product_url, env, scraped_urls, failed_urls)} :
             /\ ~AlreadyScraped(product_url, scraped_urls)
             /\ scraped_urls' = step.scraped
             /\ upserts' = IF step.outcome = "saved"
                           THEN [once |-> upserts.once \cup {product_url},
                                 again |-> IF product_url \in upserts.once
                                           THEN upserts.again \cup {product_url}
                                           ELSE upserts.again]
                           ELSE upserts
             /\ failed_urls' = step.failed
             /\ processed' = processed \cup {product_url}
             /\ extracted_ok' = IF step.sunk THEN extracted_ok \cup {product_url}
                                ELSE extracted_ok
             /\ sink_always_ok' = (sink_always_ok /\ step.outcome /= "sink_failed")
             /\ last' = Some([url |-> product_url, env |-> env, result |-> step.result,
                              sunk |-> step.sunk, outcome |-> step.outcome,
                              failed_before |-> product_url \in failed_urls,
                              scraped_before |-> product_url \in scraped_urls])
             /\ IF step.escaped
                THEN /\ cat_pc' = "raised_loop"
                     /\ open_pages' = ClosePage(open_pages)
                     /\ RunRaises
                ELSE UNCHANGED <<cat_pc, open_pages, run_pc>>
    /\ UNCHANGED <<cat_idx, listing, summary, unchangedByRun>>

\* The for loop is over: line 453 closes the page and scrape_category returns.
FinishCategory ==
    /\ run_pc = "running"
    /\ cat_pc = "loop"
    /\ processed = listing
    /\ cat_pc' = "returned"
    /\ open_pages' = ClosePage(open_pages)
    /\ UNCHANGED <<run_pc, cat_idx, listing, processed, extracted_ok, sink_always_ok,
                   scraped_urls, failed_urls, upserts, last, summary, unchangedByRun>>

\* Lines 468-483: every category is done, the browser is closed and the summary
\* is logged.
Summarise ==
    /\ run_pc = "running"
    /\ cat_pc \in {"idle", "returned"}
    /\ cat_idx = Len(category_urls)
    /\ summary' = Some(SummaryCounts(scraped_urls, failed_urls))
    /\ run_pc' = "done"
    /\ UNCHANGED <<cat_idx, cat_pc, open_pages, listing, processed, extracted_ok,
                   sink_always_ok, scraped_urls, failed_urls, upserts, last, unchangedByRun>>

Next ==
    \/ Launch
    \/ OpenPage
    \/ LoadCategory
    \/ WalkListing
    \/ SkipScraped
    \/ ProcessProduct
    \/ FinishCategory
    \/ Summarise

Spec == Init /\ [][Next]_vars

-----------------------------------------------------------------------------
(* A lone call of scroll_and_load_products against a page that may show any *)
(* height and any harvest of links at every iteration.                      *)

InitWalk ==
    /\ max_scrolls \in 0..MaxScrolls
    /\ max_products \in Caps
    /\ walk = WalkStart(max_scrolls)
    /\ iterations = 0
    /\ grew = TRUE
    /\ trend = [prev |-> 0, flat |-> 0, nongrow |-> 0]
    /\ walk_result = None
    /\ PriceIdle
    /\ RunIdle

\* One pass through the body of the while loop.
Scroll ==
    /\ walk_result = None
    /\ walk.running
    /\ \E current_height \in Heights, current_urls \in Harvests :
          /\ walk' = ScrollIteration(walk, current_height, current_urls,
                                     max_scrolls, max_products)
          /\ grew' = (grew /\ current_height > walk.last_height)
          /\ trend' = [prev |-> current_height,
                       flat |-> IF current_height = trend.prev THEN trend.flat + 1 ELSE 0,
                       nongrow |-> IF current_height <= trend.prev
                                   THEN trend.nongrow + 1 ELSE 0]
    /\ iterations' = iterations + 1
    /\ UNCHANGED <<max_scrolls, max_products, walk_result, priceVars, runVars>>

\* The loop has ended: lines 220-221.
WalkReturn ==
    /\ walk_result = None
    /\ ~walk.running
    /\ walk_result' = Some(WalkReturnValue(walk))
    /\ UNCHANGED <<max_scrolls, max_products, walk, iterations, grew, trend, priceVars,
                   runVars>>

NextWalk == Scroll \/ WalkReturn

SpecWalk == InitWalk /\ [][NextWalk]_vars

-----------------------------------------------------------------------------
(* Claims about the listing walk, checked under SpecWalk. *)

\* C5: for every supplied non-negative max_products cap and every sequence of
\* harvests, the list scroll_and_load_products returns has at most max_products
\* elements.
C5_CapHonoured ==
    (walk_result /= None /\ max_products /= None)
        => Cardinality(walk_result[1]) <= max_products[1]

\* The same bound for the caps Python takes as true (max_products >= 1).
PositiveCapHonoured ==
    (walk_result /= None /\ Truthy(max_products))
        => Cardinality(walk_result[1]) <= max_products[1]

PositiveCapReached ==
    /\ walk_result /= None
    /\ Truthy(max_products)
    /\ Cardinality(walk_result[1]) = max_products[1]
    /\ iterations >= 2

\* C6: scroll_and_load_products runs the loop body at most max_scrolls times and
\* the loop is over once it has run max_scrolls times, also when the height grows
\* at every iteration and no cap is supplied.
C6_TerminatesWithinMaxScrolls ==
    /\ iterations <= max_scrolls
    /\ (iterations = max_scrolls => ~walk.running)

\* A walk without a cap over a page that grew at each of MaxScrolls iterations
\* has returned.
C6_Witness ==
    /\ walk_result /= None
    /\ max_products = None
    /\ max_scrolls = MaxScrolls
    /\ iterations = max_scrolls
    /\ grew
    /\ walk.stop = "attempts"

-----------------------------------------------------------------------------
(* A lone price parse over some real price texts and every short one. *)

InitPrice ==
    /\ \/ price_input \in {Some(t) : t \in PriceExamples}
       \/ price_input \in {None} \cup {Some(t) : t \in SeqsUpTo(PriceAlphabet, MaxPriceLen)}
    /\ price_pc = "start"
    /\ price_out = None
    /\ max_products = None
    /\ WalkIdle
    /\ RunIdle

ExtractPrice ==
    /\ price_pc = "start"
    /\ price_out' = Some(ParsePrice(PriceText(price_input)))
    /\ price_pc' = "done"
    /\ UNCHANGED <<price_input, max_products, walkVars, runVars>>

NextPrice == ExtractPrice

SpecPrice == InitPrice /\ [][NextPrice]_vars

\* The first token digits[,digits]*[.digits] of a text that holds a digit.
LeadingToken(text) ==
    LET i == SetMin({n \in 1..Len(text) : text[n] \in Digits})
        GroupsEnd[j \in 0..Len(text)] ==
            IF j + 2 <= Len(text) /\ text[j + 1] = "," /\ text[j + 2] \in Digits
            THEN GroupsEnd[RunEnd(text, j + 2, Digits)]
            ELSE j
        g == GroupsEnd[RunEnd(text, i, Digits)]
        e == IF g + 2 <= Len(text) /\ text[g + 1] = "." /\ text[g + 2] \in Digits
             THEN RunEnd(text, g + 2, Digits)
             ELSE g
    IN SubSeq(text, i, e)

\* The decimal value of a token with all its thousands separators removed.
TokenValue(token) == PyFloat(RemoveAll(token, ","))

HasDigit(text) == Range(text) \cap Digits /= {}

\* C10: a price text holding a token digits[,digits]*[.digits] gives the decimal
\* value of that token with every thousands separator removed; a text with no
\* digit gives no price, and the parse raises nothing.
C10_PriceIsTokenValue ==
    (price_pc = "done" /\ price_input /= None) =>
        /\ ~price_out[1].raised
        /\ HasDigit(price_input[1]) =>
               price_out[1].price = TokenValue(LeadingToken(price_input[1]))
        /\ ~HasDigit(price_input[1]) => price_out[1].price = None

-----------------------------------------------------------------------------
(* Claims about run and scrape_category, checked under Spec. *)

RunOver == run_pc \in {"done", "raised"}

\* C1: after run() finishes, no product URL is in both scraped_urls and
\* failed_urls, also when the categories' listings share product URLs.
C1_SetsDisjoint == run_pc = "done" => scraped_urls \cap failed_urls = {}

\* C2: when loading a category page or walking its listing raises, every later
\* category of category_urls is still entered: once the run is over,
\* scrape_category has been called for all of them.
C2_LaterCategoriesStillLoaded ==
    (RunOver /\ cat_pc \in {"raised_goto", "raised_walk"})
        => cat_idx = Len(category_urls)

\* C3: once the browser has started, no failure of a category or of a product
\* leaves run() (an error leaves it only when the renderer cannot open a page):
\* the run ends at the summary, which reports the sizes of the two sets.
C3_RunReachesSummary ==
    /\ run_pc = "raised" => cat_pc = "raised_new_page"
    /\ run_pc = "done" =>
          summary = Some([scraped |-> Cardinality(scraped_urls),
                          failed |-> Cardinality(failed_urls)])

ProductFailures == {"extract_failed", "sink_failed", "error"}

\* C4: within a category, a product that fails (extraction failure, sink failure
\* or a stray error) puts its URL in failed_urls and does not end the for loop:
\* no error leaves the loop, and scrape_category returns only when every URL of
\* the listing has been through it.
C4_ProductFailureIsolated ==
    /\ cat_pc /= "raised_loop"
    /\ (last /= None /\ last[1].outcome \in ProductFailures) =>
          /\ last[1].url \in failed_urls
          /\ last[1].url \in processed
    /\ cat_pc = "returned" => processed = listing

\* A category of three URLs has returned: two of them failed and the last one
\* through the loop was saved.
C4_Witness ==
    /\ cat_pc = "returned"
    /\ cat_idx = 1
    /\ Cardinality(listing) = 3
    /\ Cardinality(failed_urls) = 2
    /\ last /= None
    /\ last[1].outcome = "saved"

\* An absolute http:// or https:// URL with a host.
IsAbsoluteHttp(url) ==
    \E prefix \in {Http \o <<":", "/", "/">>, Http \o <<"s", ":", "/", "/">>} :
        /\ StartsWith(url, prefix)
        /\ Len(url) > Len(prefix)
        /\ url[Len(prefix) + 1] /= "/"

\* The title element exists and its text has a character that is not white space.
TitleValid(title_el) ==
    title_el /= None /\ \E i \in 1..Len(title_el[1]) : title_el[1][i] \notin PyWhitespace

\* The image source is there and resolves against the site to an absolute
\* HTTP(S) URL.
ImageValid(image_src) ==
    image_src /= <<>> /\ IsAbsoluteHttp(UrlJoin(BaseUrl, image_src))

\* C7: every record handed to upsert_product has a non-empty title and an image
\* URL that is an absolute HTTP(S) URL; a page missing its title or its image is
\* never handed to the sink.
C7_SinkRecordsValid ==
    (last /= None /\ last[1].outcome /= "skipped") =>
        /\ last[1].sunk =>
              /\ last[1].result[1].title /= <<>>
              /\ IsAbsoluteHttp(last[1].result[1].image_url)
        /\ (~TitleValid(last[1].env.title_el) \/ last[1].env.image_src = <<>>)
              => ~last[1].sunk

EmbeddingFails(emb) == emb.error /= "none" \/ emb.dim /= 768

\* The pass reached the embedder with a valid title and image, and embedding failed.
EmbeddingFailedOnValidPage(a) ==
    /\ a.outcome /= "skipped"
    /\ a.env.body = "none"
    /\ a.env.nav = "ok"
    /\ TitleValid(a.env.title_el)
    /\ ImageValid(a.env.image_src)
    /\ EmbeddingFails(a.env.emb)

\* C8: when embedding generation fails (fetch error, decode error, or a vector
\* whose length is not 768) on a product with a valid title and image, extraction
\* still returns a record, the record goes to the sink without an embedding, and
\* the URL is not put in failed_urls because of it: with a sink that succeeds the
\* URL is in scraped_urls and is in failed_urls only if it was there before.
C8_EmbeddingFailureKeepsRecord ==
    (last /= None /\ EmbeddingFailedOnValidPage(last[1])) =>
        /\ last[1].result /= None
        /\ last[1].sunk
        /\ last[1].result[1].embedding = None
        /\ last[1].env.sink = "ok" =>
              /\ last[1].url \in scraped_urls
              /\ last[1].url \in failed_urls => last[1].failed_before

\* The embedder returned a 512-long vector for a valid page and the record was
\* saved without an embedding.
C8_Witness ==
    /\ last /= None
    /\ EmbeddingFailedOnValidPage(last[1])
    /\ last[1].env.emb = [error |-> "none", dim |-> 512]
    /\ last[1].outcome = "saved"
    /\ last[1].result[1].embedding = None
    /\ last[1].url \notin failed_urls

\* C9: after a run over one category whose listing gave N URLs, with a sink that
\* always succeeds, scraped_urls is the URLs whose extraction succeeded,
\* failed_urls is the others, the two sizes sum to N and the summary's counts are
\* the sizes of the two sets.
C9_SingleCategoryTally ==
    (run_pc = "done" /\ Len(category_urls) = 1 /\ sink_always_ok) =>
        /\ scraped_urls = extracted_ok
        /\ failed_urls = listing \ extracted_ok
        /\ Cardinality(scraped_urls) + Cardinality(failed_urls) = Cardinality(listing)
        /\ summary = Some([scraped |-> Cardinality(scraped_urls),
                           failed |-> Cardinality(failed_urls)])

\* Three URLs, one of them without a title element: two successes, one failure.
C9_Witness ==
    /\ run_pc = "done"
    /\ Len(category_urls) = 1
    /\ sink_always_ok
    /\ Cardinality(listing) = 3
    /\ last /= None
    /\ last[1].env.title_el = None
    /\ last[1].outcome = "extract_failed"
    /\ summary = Some([scraped |-> 2, failed |-> 1])


\* C12: once a product URL is in the success set, no later extraction or sink call
\* is made for it in the run, also when it shows up in a later category; the sink
\* stores each URL at most once per run.
C12_ScrapedNeverRetried ==
    /\ upserts.again = {}
    /\ upserts.once = scraped_urls
    /\ (last /= None /\ last[1].scraped_before) =>
          /\ last[1].outcome = "skipped"
          /\ last[1].result = None
          /\ ~last[1].sunk

\* The second category lists a URL the first category stored, and the for loop
\* has just passed over it.
C12_Witness ==
    /\ cat_idx = 2
    /\ last /= None
    /\ last[1].scraped_before
    /\ last[1].outcome = "skipped"
    /\ last[1].url \in upserts.once

\* C13: the page scrape_category opens is closed by the time scrape_category
\* returns or raises, wherever the error came from; at most one page is open at
\* any time and none is open once the run is over.
C13_PagesClosed ==
    /\ open_pages \in {0, 1}
    /\ cat_pc \in {"returned", "raised_new_page", "raised_goto", "raised_walk",
                   "raised_loop"} => open_pages = 0
    /\ run_pc \in {"done", "raised", "launch_failed"} => open_pages = 0

\* The run is over after an error left the listing walk of the second category,
\* whose page and the page of the first category are closed.
C13_Witness ==
    /\ run_pc = "raised"
    /\ cat_pc = "raised_walk"
    /\ cat_idx = 2
    /\ open_pages = 0

=============================================================================
